---- MODULE Spec2Model ----
(***************************************************************************)
(* Model of `npx convex deploy` (src/src/cli/deploy.ts): the deploy        *)
(* command's action, handlePreview, handleProduction, runCommand and       *)
(* askToConfirmPush, together with the admin-key helpers of                *)
(* lib/deployment.ts that the action calls.                                *)
(*                                                                         *)
(* JavaScript values are tagged records: Undefined, Null, Bool(b), Str(s). *)
(* A JavaScript string is a sequence of tokens.  A token is either one of  *)
(* the separator characters ":" and "|" or an indivisible chunk of text    *)
(* that contains neither, so String.prototype.split is computed on the     *)
(* sequence exactly as on the characters.  Template literals are the       *)
(* concatenation of their literal chunks and their substituted values;     *)
(* the literal chunks are abbreviated and written without quote marks.     *)
(***************************************************************************)
EXTENDS Integers, Sequences, FiniteSets, TLC

VARIABLES
  pc,                  \* position of the single deploy invocation
  opts,                \* cmdOptions as parsed by commander
  env,                 \* process.env and the build environment
  exitCode,            \* <<>> while running, <<c>> once the process exited with c
  configuredDeployKey, \* local of the action (line 140)
  previewName,         \* local of handlePreview (line 205)
  creds,               \* {adminKey, url} resolved by the claim or the fetch
  deploymentNames,     \* local of handleProduction (line 316)
  trace,               \* external effects in the order they happened
  log,                 \* what was written through the log functions, in order
  fs,                  \* ctx.fs: the contents of .env.local and .gitignore
  procEnv,             \* process.env[CONVEX_DEPLOYMENT_VAR_NAME] of the editor's process
  last,                \* the editor operation that ran last, with what it saw and returned
  nOps,                \* how many editor operations have run
  call                 \* a call of one of the exported functions, and its result

\* The state of a deploy invocation.
deployVars == <<pc, opts, env, exitCode, configuredDeployKey, previewName, creds,
                deploymentNames, trace, log>>

\* The state the functions of lib/deployment.ts work on.
editorVars == <<fs, procEnv, last, nOps, call>>

vars == <<deployVars, editorVars>>

(***************************************************************************)
(* JavaScript values                                                       *)
(***************************************************************************)
Undefined == [t |-> "undefined"]
Null == [t |-> "null"]
Bool(b) == [t |-> "boolean", v |-> b]
Str(s) == [t |-> "string", v |-> s]
True == Bool(TRUE)

\* a === b
StrictEq(a, b) == a = b

\* a ?? b
Coalesce(a, b) == IF a = Undefined \/ a = Null THEN b ELSE a

\* !!a
Truthy(a) ==
  CASE a.t = "undefined" -> FALSE
    [] a.t = "null" -> FALSE
    [] a.t = "boolean" -> a.v
    [] a.t = "string" -> Len(a.v) > 0

(***************************************************************************)
(* lib/deployment.ts: admin-key helpers                                    *)
(***************************************************************************)
\* Index of the first occurrence of sep in s, 0 if there is none.
FirstIndex(s, sep) ==
  IF \E i \in 1..Len(s) : s[i] = sep
  THEN CHOOSE i \in 1..Len(s) : s[i] = sep /\ \A j \in 1..(i - 1) : s[j] # sep
  ELSE 0

\* s.split(sep): the pieces of s between the occurrences of sep.
RECURSIVE Split(_, _)
Split(s, sep) ==
  LET i == FirstIndex(s, sep) IN
  IF i = 0 THEN <<s>>
  ELSE <<SubSeq(s, 1, i - 1)>> \o Split(SubSeq(s, i + 1, Len(s)), sep)

\* The text after the first ":" instead of the last.
stripDeploymentTypePrefix_AfterFirst(deployment) ==
  LET i == FirstIndex(deployment, ":") IN SubSeq(deployment, i + 1, Len(deployment))

\* deployment.split(":").at(-1)!
stripDeploymentTypePrefix(deployment) ==
  LET parts == Split(deployment, ":") IN parts[Len(parts)]

\* No default for a key without ":".
deploymentTypeFromAdminKey_NoDefault(adminKey) ==
  LET parts == Split(adminKey, ":") IN parts[1]

\* Lines 609-615.
deploymentTypeFromAdminKey(adminKey) ==
  LET parts == Split(adminKey, ":") IN
  IF Len(parts) = 1 THEN <<"prod">> ELSE parts[1]

\* The type of the key is not looked at.
deploymentNameFromAdminKey_AnyType(adminKey) ==
  LET parts == Split(adminKey, "|") IN
  IF Len(parts) = 1 THEN Null
  ELSE Str(stripDeploymentTypePrefix(parts[1]))

\* Lines 597-607.  Returns Null or Str(name).
deploymentNameFromAdminKey(adminKey) ==
  LET parts == Split(adminKey, "|") IN
  IF Len(parts) = 1 THEN Null
  ELSE IF deploymentTypeFromAdminKey(adminKey) # <<"prod">> THEN Null
  ELSE Str(stripDeploymentTypePrefix(parts[1]))

\* process.env after dotenv.config: e is the environment record.
readDeploymentEnvVar(e) ==
  LET rawAdminKey == Coalesce(e.CONVEX_DEPLOY_KEY, Null)
      adminKeyDeploymentName ==
        IF Truthy(rawAdminKey) THEN deploymentNameFromAdminKey(rawAdminKey.v)
        ELSE Null
      raw == Coalesce(e.CONVEX_DEPLOYMENT, Null)
  IN IF adminKeyDeploymentName # Null THEN adminKeyDeploymentName
     ELSE IF raw = Null \/ raw = Str(<<>>) THEN Null
     ELSE Str(stripDeploymentTypePrefix(raw.v))

(***************************************************************************)
(* Collaborators imported by deploy.ts whose code is in other files        *)
(***************************************************************************)
\* lib/api.ts: a given --admin-key overrides the deploy-key variable.
storeAdminKeyEnvVar(e, adminKeyOption) ==
  IF Truthy(adminKeyOption) THEN [e EXCEPT !.CONVEX_DEPLOY_KEY = adminKeyOption]
  ELSE e

\* lib/utils.ts: process.env[CONVEX_DEPLOY_KEY_ENV_VAR_NAME]
readAdminKeyFromEnvVar(e) == e.CONVEX_DEPLOY_KEY

\* lib/utils.ts: the configured deployment's name, or Null
getConfiguredDeployment(e) == readDeploymentEnvVar(e)

\* lib/envvars.ts
isNonProdBuildEnvironment(e) == e.nonProdBuild

\* lib/envvars.ts: Str(branch) or Null
gitBranchFromEnvironment(e) == e.gitBranch

\* lib/envvars.ts: the names suggestedEnvVarName can answer for a project
SuggestedEnvVarNames == {<<"CONVEX_URL">>, <<"VITE_CONVEX_URL">>}

\* spawnSync(...).status: an exit status, or null when a signal killed the child
SpawnStatuses == {[t |-> "number", v |-> 0], [t |-> "number", v |-> 1], Null}

(***************************************************************************)
(* Inputs of one invocation                                                *)
(***************************************************************************)
PreviewDeployKey == <<"preview", ":", "team", ":", "proj", "|", "tok">>
ProdDeployKey == <<"prod", ":", "happy", "|", "tok">>
LegacyProdKey == <<"happy", "|", "tok">>
DevDeployKey == <<"dev", ":", "quick", "|", "tok">>
BareKey == <<"tok">>
ClaimedPreviewKey == <<"fresh", "|", "tok">>
TypedPreviewKey == <<"preview", ":", "fresh", "|", "tok">>

PlaceholderUrl == <<"https://<PREVIEW DEPLOYMENT>.convex.cloud">>
ProdUrl == <<"https://happy.convex.cloud">>
PreviewUrl == <<"https://fresh.convex.cloud">>

\* The deploy keys the environment is tried with: the first MaxEnvKeys of
\* the samples.
MaxEnvKeys == 4
KeySamples ==
  <<PreviewDeployKey, ProdDeployKey, LegacyProdKey, DevDeployKey, BareKey>>
EnvDeployKeys == {KeySamples[i] : i \in (1..MaxEnvKeys) \cap DOMAIN KeySamples}

\* An option commander leaves undefined unless it was given.
Flag == {Undefined, True}
Opt(values) == {Undefined} \cup {Str(v) : v \in values}

CmdOptions ==
  [dryRun : Flag,
   yes : Flag,
   cmd : Opt({<<"build">>}),
   cmdUrlEnvVarName : Opt({<<"MY_URL">>}),
   previewRun : Opt({<<"seed">>}),
   previewCreate : Opt({<<"feature">>}),
   previewName : Opt({<<"legacy">>}),
   checkBuildEnvironment : {Str(<<"enable">>), Str(<<"disable">>)},
   adminKey : Opt({ProdDeployKey, PreviewDeployKey}),
   logDeploymentName : Flag]

Environments ==
  [CONVEX_DEPLOY_KEY : Opt(EnvDeployKeys),
   CONVEX_DEPLOYMENT : Opt({<<"dev", ":", "quick">>}),
   nonProdBuild : BOOLEAN,
   gitBranch : {Null, Str(<<"branch">>)}]

\* What claim_preview_deployment can answer.
ClaimResults ==
  [adminKey : {Str(ClaimedPreviewKey), Str(TypedPreviewKey)},
   instanceUrl : {Str(PreviewUrl)}]

\* What fetchDeploymentCredentialsWithinCurrentProject can answer.
FetchResults ==
  [adminKey : {Str(ProdDeployKey)},
   url : {Str(ProdUrl)},
   deploymentNames :
     {Undefined}
     \cup [t : {"object"}, selected : {Str(<<"happy">>)},
           configured : {Null, Str(<<"happy">>), Str(<<"quick">>)}]]

(***************************************************************************)
(* Effects                                                                 *)
(***************************************************************************)
\* ctx.crash(code): the process exits with code, nothing runs after it.
Crash(code) == pc' = "done" /\ exitCode' = <<code>>

\* The action's promise resolved: the process exits with code 0.
Finish == pc' = "done" /\ exitCode' = <<0>>

Logged(fn, step, msg) == [fn |-> fn, step |-> step, msg |-> msg]

Init ==
  /\ pc = "parse"
  /\ opts \in CmdOptions
  /\ env \in Environments
  /\ exitCode = <<>>
  /\ configuredDeployKey = Undefined
  /\ previewName = Undefined
  /\ creds = Undefined
  /\ deploymentNames = Undefined
  /\ trace = <<>>
  /\ log = <<>>
  /\ fs = [envLocal |-> Null, gitIgnore |-> Null]
  /\ procEnv = Undefined
  /\ last = <<>>
  /\ nOps = 0
  /\ call = <<>>

(***************************************************************************)
(* deploy: option parsing and the action (lines 40-185)                    *)
(***************************************************************************)
\* .conflicts(): commander refuses the two options together.
OptionsConflict(o) == o.previewCreate # Undefined /\ o.previewName # Undefined

\* commander parses the command line; the action runs only if parsing succeeds.
ParseOptions ==
  /\ pc = "parse"
  /\ IF OptionsConflict(opts) THEN Crash(1) ELSE pc' = "safety" /\ exitCode' = exitCode
  /\ UNCHANGED <<opts, env, configuredDeployKey, previewName, creds,
                 deploymentNames, trace, log>>
  /\ UNCHANGED editorVars

\* The check with the key's type read off a literal prefix only, so that a
\* production key without a type prefix passes.
ProdKeyInNonProdBuild_PrefixOnly(o, e, key) ==
  /\ StrictEq(o.checkBuildEnvironment, Str(<<"enable">>))
  /\ isNonProdBuildEnvironment(e)
  /\ key # Null
  /\ Split(key.v, ":")[1] = <<"prod">>

\* The condition of lines 141-146.
ProdKeyInNonProdBuild(o, e, key) ==
  /\ StrictEq(o.checkBuildEnvironment, Str(<<"enable">>))
  /\ isNonProdBuildEnvironment(e)
  /\ key # Null
  /\ deploymentTypeFromAdminKey(key.v) = <<"prod">>

\* Lines 139-154.
BuildEnvironmentCheck ==
  /\ pc = "safety"
  /\ env' = storeAdminKeyEnvVar(env, opts.adminKey)
  /\ configuredDeployKey' = Coalesce(readAdminKeyFromEnvVar(env'), Null)
  /\ IF ProdKeyInNonProdBuild(opts, env', configuredDeployKey')
     THEN /\ log' = Append(log, Logged("logError", "safety",
                      <<"Detected a non-production build environment and ",
                        "CONVEX_DEPLOY_KEY",
                        " for a production Convex deployment.">>))
          /\ Crash(1)
     ELSE /\ log' = log
          /\ pc' = "configured"
          /\ exitCode' = exitCode
  /\ UNCHANGED <<opts, previewName, creds, deploymentNames, trace>>
  /\ UNCHANGED editorVars

\* The condition of line 156.
NoDeploymentConfigured(configuredDeployment, o) ==
  StrictEq(configuredDeployment, Null) /\ StrictEq(o.adminKey, Null)

\* Lines 155-165.
ConfiguredDeploymentCheck ==
  /\ pc = "configured"
  /\ IF NoDeploymentConfigured(getConfiguredDeployment(env), opts)
     THEN /\ log' = Append(log, Logged("logFailure", "configured",
                      <<"Please set ", "CONVEX_DEPLOY_KEY",
                        " to a new key (production deployment).">>))
          /\ Crash(1)
     ELSE /\ log' = log
          /\ pc' = "usage"
          /\ exitCode' = exitCode
  /\ UNCHANGED <<opts, env, configuredDeployKey, previewName, creds,
                 deploymentNames, trace>>
  /\ UNCHANGED editorVars

\* Line 167: the usage-state lookup asks the server when the invocation
\* carries an authorization for it, and is skipped otherwise.
usageStateWarning ==
  /\ pc = "usage"
  /\ \E sent \in BOOLEAN :
       trace' = IF sent THEN Append(trace, [kind |-> "usageState"]) ELSE trace
  /\ pc' = "mode"
  /\ UNCHANGED <<opts, env, exitCode, configuredDeployKey, previewName, creds,
                 deploymentNames, log>>
  /\ UNCHANGED editorVars

\* Any deploy key at all selects the preview flow.
IsPreviewDeployKey_Any(key) == key # Null

\* The condition of lines 170-171.
IsPreviewDeployKey(key) ==
  key # Null /\ deploymentTypeFromAdminKey(key.v) = <<"preview">>

\* The legacy-flag test written against null, which an omitted option never is.
LegacyPreviewNameGiven_Null(o) == o.previewName = Null

\* The condition of line 173.
LegacyPreviewNameGiven(o) == o.previewName # Undefined

\* Lines 169-183.
SelectMode ==
  /\ pc = "mode"
  /\ IF IsPreviewDeployKey(configuredDeployKey)
     THEN IF LegacyPreviewNameGiven(opts)
          THEN /\ log' = Append(log, Logged("logError", "mode",
                           <<"The --preview-name flag has been deprecated in favor of --preview-create.">>))
               /\ Crash(1)
          ELSE /\ log' = log
               /\ pc' = "handlePreview"
               /\ exitCode' = exitCode
     ELSE /\ log' = log
          /\ pc' = "handleProduction"
          /\ exitCode' = exitCode
  /\ UNCHANGED <<opts, env, configuredDeployKey, previewName, creds,
                 deploymentNames, trace>>
  /\ UNCHANGED editorVars

(***************************************************************************)
(* handlePreview (lines 187-292)                                           *)
(***************************************************************************)
\* The two sources of the name taken in the other order.
PreviewIdentifier_BranchFirst(o, e) ==
  Coalesce(gitBranchFromEnvironment(e), Coalesce(o.previewCreate, Null))

\* Line 205.
PreviewIdentifier(o, e) == Coalesce(o.previewCreate, gitBranchFromEnvironment(e))

\* Lines 205-212.
ResolvePreviewName ==
  /\ pc = "handlePreview"
  /\ previewName' = PreviewIdentifier(opts, env)
  /\ IF previewName' = Null
     THEN /\ log' = Append(log, Logged("logError", "previewName",
                      <<"npx convex deploy to a preview deployment could not determine the preview name.">>))
          /\ Crash(1)
     ELSE /\ log' = log
          /\ pc' = "previewBranch"
          /\ exitCode' = exitCode
  /\ UNCHANGED <<opts, env, configuredDeployKey, creds, deploymentNames, trace>>
  /\ UNCHANGED editorVars

\* Lines 214-218: the dry-run branch narrates the claim.
PreviewDryRunClaim ==
  /\ pc = "previewBranch"
  /\ Truthy(opts.dryRun)
  /\ log' = Append(log, Logged("logFinishedStep", "claim",
               <<"Would have claimed preview deployment for ">> \o previewName.v))
  /\ pc' = "dryRunCommand"
  /\ UNCHANGED <<opts, env, exitCode, configuredDeployKey, previewName, creds,
                 deploymentNames, trace>>
  /\ UNCHANGED editorVars

\* Lines 235-250: POST claim_preview_deployment.
ClaimPreviewDeployment ==
  /\ pc = "previewBranch"
  /\ ~Truthy(opts.dryRun)
  /\ \E data \in ClaimResults :
       /\ trace' = Append(trace, [kind |-> "claim",
                                  identifier |-> previewName,
                                  deployKey |-> configuredDeployKey,
                                  result |-> data])
       /\ creds' = [adminKey |-> data.adminKey, url |-> data.instanceUrl]
  /\ pc' = "previewCommand"
  /\ UNCHANGED <<opts, env, exitCode, configuredDeployKey, previewName,
                 deploymentNames, log>>
  /\ UNCHANGED editorVars

\* The dry run's last lines without the one for --preview-run.
PreviewDryRunNarration_NoFunctionLine(o, name) ==
  <<Logged("logFinishedStep", "push",
      <<"Would have deployed Convex functions to preview deployment for ">> \o name.v)>>

\* Lines 225-231: what the dry run prints in place of the push and of the
\* function run.
PreviewDryRunNarration(o, name) ==
  <<Logged("logFinishedStep", "push",
      <<"Would have deployed Convex functions to preview deployment for ">> \o name.v)>>
  \o (IF o.previewRun # Undefined
      THEN <<Logged("logMessage", "function",
               <<"Would have run function ">> \o o.previewRun.v)>>
      ELSE <<>>)

\* Lines 225-233: the rest of the dry-run branch, then handlePreview returns.
PreviewDryRunPush ==
  /\ pc = "dryRunPush"
  /\ log' = log \o PreviewDryRunNarration(opts, previewName)
  /\ Finish
  /\ UNCHANGED <<opts, env, configuredDeployKey, previewName, creds,
                 deploymentNames, trace>>
  /\ UNCHANGED editorVars

\* Lines 264 and 266: what the real flow prints around runPush.
PreviewPushNarration(url) ==
  <<Logged("showSpinner", "push", <<"Deploying to ">> \o url.v \o <<"...">>),
    Logged("logFinishedStep", "push", <<"Deployed Convex functions to ">> \o url.v)>>

\* Lines 268 and 276-281: what the real flow prints for --preview-run.
PreviewRunNarration(o) ==
  IF o.previewRun # Undefined
  THEN <<Logged("logFinishedStep", "function",
           <<"Finished running function ">> \o o.previewRun.v)>>
  ELSE <<>>

\* The push made with the configured preview deploy key.
PreviewPushOptions_ConfiguredKey(c, key) ==
  [adminKey |-> key, url |-> c.url, dryRun |-> FALSE]

\* Lines 254-263: pushOptions, of which adminKey, url and dryRun are kept.
\* c holds previewAdminKey and previewUrl, key is options.configuredDeployKey.
PreviewPushOptions(c, key) ==
  [adminKey |-> c.adminKey, url |-> c.url, dryRun |-> FALSE]

\* Lines 254-266.
PreviewPush ==
  /\ pc = "previewPush"
  /\ LET pushOptions == PreviewPushOptions(creds, configuredDeployKey) IN
     trace' = Append(trace, [kind |-> "push", adminKey |-> pushOptions.adminKey,
                             url |-> pushOptions.url, dryRun |-> pushOptions.dryRun])
  /\ log' = log \o PreviewPushNarration(creds.url)
  /\ pc' = "previewRun"
  /\ UNCHANGED <<opts, env, exitCode, configuredDeployKey, previewName, creds,
                 deploymentNames>>
  /\ UNCHANGED editorVars

\* Lines 268-284: the function runs to completion and onSuccess is called.
PreviewRunFunction ==
  /\ pc = "previewRun"
  /\ IF opts.previewRun # Undefined
     THEN /\ trace' = Append(trace, [kind |-> "runFunction", adminKey |-> creds.adminKey,
                                     url |-> creds.url, functionName |-> opts.previewRun])
          /\ log' = log \o PreviewRunNarration(opts)
     ELSE UNCHANGED <<trace, log>>
  /\ pc' = "previewLogName"
  /\ UNCHANGED <<opts, env, exitCode, configuredDeployKey, previewName, creds,
                 deploymentNames>>
  /\ UNCHANGED editorVars

\* Lines 285-291 and 361-367, with deploymentNameFromAdminKeyOrCrash
\* (lines 582-595); the handler returns after it.
LogDeploymentName ==
  /\ pc \in {"previewLogName", "prodLogName"}
  /\ IF Truthy(opts.logDeploymentName)
     THEN LET deploymentName == deploymentNameFromAdminKey(creds.adminKey.v) IN
          IF deploymentName = Null
          THEN /\ log' = Append(log, Logged("logFailure", "name",
                           <<"Please set ", "CONVEX_DEPLOY_KEY", " to a new key.">>))
               /\ Crash(1)
          ELSE /\ log' = Append(log, Logged("logOutput", "name", deploymentName.v))
               /\ Finish
     ELSE /\ log' = log
          /\ Finish
  /\ UNCHANGED <<opts, env, configuredDeployKey, previewName, creds,
                 deploymentNames, trace>>
  /\ UNCHANGED editorVars

(***************************************************************************)
(* runCommand (lines 370-410)                                              *)
(***************************************************************************)
\* The production call site continuing into the preview flow's push and
\* function run.
RunCommandCall_ProdIntoPreview ==
  CASE pc = "dryRunCommand" ->
         [cmd |-> opts.cmd, cmdUrlEnvVarName |-> opts.cmdUrlEnvVarName,
          dryRun |-> Bool(Truthy(opts.dryRun)), url |-> Str(PlaceholderUrl),
          next |-> "dryRunPush"]
    [] pc = "previewCommand" ->
         [cmd |-> opts.cmd, cmdUrlEnvVarName |-> opts.cmdUrlEnvVarName,
          dryRun |-> opts.dryRun, url |-> creds.url, next |-> "previewPush"]
    [] pc = "prodCommand" ->
         [cmd |-> opts.cmd, cmdUrlEnvVarName |-> opts.cmdUrlEnvVarName,
          dryRun |-> opts.dryRun, url |-> creds.url, next |-> "previewPush"]

\* The call sites of runCommand: lines 219-224, 252 and 338.  Each gives the
\* options runCommand receives and where the caller continues.
RunCommandCall ==
  CASE pc = "dryRunCommand" ->
         [cmd |-> opts.cmd, cmdUrlEnvVarName |-> opts.cmdUrlEnvVarName,
          dryRun |-> Bool(Truthy(opts.dryRun)), url |-> Str(PlaceholderUrl),
          next |-> "dryRunPush"]
    [] pc = "previewCommand" ->
         [cmd |-> opts.cmd, cmdUrlEnvVarName |-> opts.cmdUrlEnvVarName,
          dryRun |-> opts.dryRun, url |-> creds.url, next |-> "previewPush"]
    [] pc = "prodCommand" ->
         [cmd |-> opts.cmd, cmdUrlEnvVarName |-> opts.cmdUrlEnvVarName,
          dryRun |-> opts.dryRun, url |-> creds.url, next |-> "prodPush"]

\* The dry-run test left out: the command is spawned in every mode.
ShouldSpawn_Always(options) == TRUE

\* Line 391: the command is spawned unless this is a dry run.
ShouldSpawn(options) == ~Truthy(options.dryRun)

\* Only a child killed by a signal (status null) counts as failed.
CommandFailed_SignalOnly(status) == status = Null

\* Line 399.
CommandFailed(status) == status # [t |-> "number", v |-> 0]

DryRunSuffix(dryRun) == IF Truthy(dryRun) THEN <<" [dry run]">> ELSE <<>>

\* Lines 385-390 and 404-409: what runCommand prints when the command did
\* not fail.
RunCommandNarration(options, urlVar) ==
  <<Logged("showSpinner", "command",
      <<"Running ">> \o options.cmd.v \o <<" with environment variable ">>
        \o urlVar.v \o <<" set...">> \o DryRunSuffix(options.dryRun)),
    Logged("logFinishedStep", "command",
      (IF Truthy(options.dryRun) THEN <<"Would have run ">> ELSE <<"Ran ">>)
        \o options.cmd.v \o <<" with environment variable ">>
        \o urlVar.v \o <<" set">>)>>

runCommand ==
  /\ pc \in {"dryRunCommand", "previewCommand", "prodCommand"}
  /\ LET options == RunCommandCall IN
     IF options.cmd = Undefined
     THEN /\ pc' = options.next
          /\ UNCHANGED <<exitCode, trace, log>>
     ELSE \E suggested \in SuggestedEnvVarNames, status \in SpawnStatuses :
       LET urlVar == Coalesce(options.cmdUrlEnvVarName, Str(suggested))
           narration == RunCommandNarration(options, urlVar)
       IN
       IF ShouldSpawn(options)
       THEN /\ trace' = Append(trace, [kind |-> "spawn", cmd |-> options.cmd,
                                       envVar |-> urlVar, url |-> options.url,
                                       status |-> status])
            /\ IF CommandFailed(status)
               THEN /\ log' = log \o <<narration[1], Logged("logFailure", "command",
                                              options.cmd.v \o <<" failed">>)>>
                    /\ Crash(1)
               ELSE /\ log' = log \o narration
                    /\ pc' = options.next
                    /\ exitCode' = exitCode
       ELSE /\ trace' = trace
            /\ log' = log \o narration
            /\ pc' = options.next
            /\ exitCode' = exitCode
  /\ UNCHANGED <<opts, env, configuredDeployKey, previewName, creds, deploymentNames>>
  /\ UNCHANGED editorVars

(***************************************************************************)
(* handleProduction (lines 294-368) and askToConfirmPush (lines 412-445)   *)
(***************************************************************************)
\* Lines 312-320.
FetchDeploymentCredentials ==
  /\ pc = "handleProduction"
  /\ \E result \in FetchResults :
       /\ creds' = [adminKey |-> result.adminKey, url |-> result.url]
       /\ deploymentNames' = result.deploymentNames
       /\ trace' = Append(trace, [kind |-> "fetch",
                                  result |-> [adminKey |-> result.adminKey,
                                              url |-> result.url]])
  /\ pc' = "confirm"
  /\ UNCHANGED <<opts, env, exitCode, configuredDeployKey, previewName, log>>
  /\ UNCHANGED editorVars

\* Line 321.
HasConfiguredDeployment(names) == names # Undefined /\ names.configured # Null

\* The question asked whenever --yes is missing, equal names or not.
NeedsPrompt_IgnoresNames(names, yes) == yes = Undefined \/ yes = Null

\* Lines 323-324: no question is asked when the names agree or --yes was given.
NeedsPrompt(names, yes) ==
  ~StrictEq(names.selected, names.configured) /\ (yes = Undefined \/ yes = Null)

\* The answer to the question never looked at.
ShouldPushToProd_Always(names, yes, answer) == TRUE

\* Lines 322-332: the value of shouldPushToProd, given the prompt's answer.
ShouldPushToProd(names, yes, answer) ==
  \/ StrictEq(names.selected, names.configured)
  \/ Truthy(Coalesce(yes, Bool(answer)))

\* Lines 321-336, with askToConfirmPush.
ConfirmPush ==
  /\ pc = "confirm"
  /\ IF HasConfiguredDeployment(deploymentNames)
     THEN \E answer \in BOOLEAN, suggested \in SuggestedEnvVarNames :
            /\ IF NeedsPrompt(deploymentNames, opts.yes)
               THEN /\ log' = Append(log, Logged("logMessage", "confirm",
                                <<"You're currently developing against your dev deployment ">>
                                  \o deploymentNames.configured.v
                                  \o <<" Your prod deployment ">>
                                  \o deploymentNames.selected.v
                                  \o <<" serves traffic at: ">> \o suggested \o <<"=">>
                                  \o creds.url.v))
                    /\ trace' = Append(trace, [kind |-> "prompt",
                                               prod |-> deploymentNames.selected,
                                               answer |-> answer])
               ELSE UNCHANGED <<log, trace>>
            /\ IF ShouldPushToProd(deploymentNames, opts.yes, answer)
               THEN pc' = "prodCommand" /\ exitCode' = exitCode
               ELSE Crash(1)
     ELSE /\ pc' = "prodCommand"
          /\ UNCHANGED <<exitCode, trace, log>>
  /\ UNCHANGED <<opts, env, configuredDeployKey, previewName, creds, deploymentNames>>
  /\ UNCHANGED editorVars

\* Lines 340-349: pushOptions, of which adminKey, url and dryRun are kept.
ProductionPushOptions(o, c) ==
  [adminKey |-> c.adminKey, url |-> c.url, dryRun |-> Truthy(o.dryRun)]

\* Lines 340-360.
ProductionPush ==
  /\ pc = "prodPush"
  /\ LET pushOptions == ProductionPushOptions(opts, creds) IN
     trace' = Append(trace, [kind |-> "push", adminKey |-> pushOptions.adminKey,
                             url |-> pushOptions.url, dryRun |-> pushOptions.dryRun])
  /\ log' = log
       \o <<Logged("showSpinner", "push",
              <<"Deploying to ">> \o creds.url.v \o <<"...">> \o DryRunSuffix(opts.dryRun)),
            Logged("logFinishedStep", "push",
              (IF Truthy(opts.dryRun) THEN <<"Would have deployed">> ELSE <<"Deployed">>)
                \o <<" Convex functions to ">> \o creds.url.v)>>
  /\ pc' = "prodLogName"
  /\ UNCHANGED <<opts, env, exitCode, configuredDeployKey, previewName, creds,
                 deploymentNames>>
  /\ UNCHANGED editorVars

Next ==
  \/ ParseOptions
  \/ BuildEnvironmentCheck
  \/ ConfiguredDeploymentCheck
  \/ usageStateWarning
  \/ SelectMode
  \/ ResolvePreviewName
  \/ PreviewDryRunClaim
  \/ ClaimPreviewDeployment
  \/ PreviewDryRunPush
  \/ PreviewPush
  \/ PreviewRunFunction
  \/ LogDeploymentName
  \/ runCommand
  \/ FetchDeploymentCredentials
  \/ ConfirmPush
  \/ ProductionPush

Spec == Init /\ [][Next]_vars

(***************************************************************************)
(* Properties                                                              *)
(***************************************************************************)
Events(kind) == {i \in DOMAIN trace : trace[i].kind = kind}
Happened(kind) == Events(kind) # {}
Exited(code) == pc = "done" /\ exitCode = <<code>>

\* The deploy key the action reads once --admin-key has been registered.
KeyRead == Coalesce(readAdminKeyFromEnvVar(storeAdminKeyEnvVar(env, opts.adminKey)), Null)
KeyType == IF KeyRead = Null THEN <<>> ELSE deploymentTypeFromAdminKey(KeyRead.v)

\* The action (line 137 on) has started and its first check is behind it.
PastBuildEnvironmentCheck == pc \notin {"parse", "safety"} /\ ~OptionsConflict(opts)

\* C1: a run with --check-build-environment enable, in a non-production build
\* environment, whose deploy key (read after --admin-key was registered) is
\* present and of type prod, ends with exit code 1 at the first check: no
\* usage lookup, credential resolution, claim, command or push has happened.
C1_BuildEnvironmentCheckIsFatal ==
  ( /\ PastBuildEnvironmentCheck
    /\ opts.checkBuildEnvironment = Str(<<"enable">>)
    /\ env.nonProdBuild
    /\ KeyRead # Null
    /\ KeyType = <<"prod">> )
  => /\ Exited(1)
     /\ trace = <<>>
     /\ creds = Undefined
     /\ configuredDeployKey = KeyRead
     /\ Len(log) = 1 /\ log[1].fn = "logError" /\ log[1].step = "safety"

\* C1 witness: --admin-key carries a production key that replaces a preview
\* deploy key of the environment, and the run has been stopped.
C1_Witness ==
  /\ Exited(1)
  /\ opts.adminKey = Str(ProdDeployKey)
  /\ configuredDeployKey = Str(ProdDeployKey)
  /\ opts.checkBuildEnvironment = Str(<<"enable">>)
  /\ env.nonProdBuild
  /\ Len(log) = 1 /\ log[1].step = "safety"

\* C2: a run with the deploy-key variable absent and no --admin-key fails
\* with exit code 1 after the message asking for the deploy key, and
\* resolves no credentials, runs no command and pushes nothing.
C2_MissingDeployKeyIsFatal ==
  ( /\ pc \notin {"parse", "safety", "configured"}
    /\ ~OptionsConflict(opts)
    /\ env.CONVEX_DEPLOY_KEY = Undefined
    /\ opts.adminKey = Undefined )
  => /\ Exited(1)
     /\ trace = <<>>
     /\ Len(log) = 1 /\ log[1].fn = "logFailure" /\ log[1].step = "configured"

\* The run's deploy key is a preview key: the run belongs to the preview flow.
PreviewKeyRun == KeyRead # Null /\ KeyType = <<"preview">>

OnlyUsageLookups == \A i \in DOMAIN trace : trace[i].kind = "usageState"

\* C3 as stated: a preview-key run given --preview-name, alone or with
\* --preview-create, is rejected with exit code 1 and no network call at
\* all (usage-state lookup, claim, push) comes before the rejection.
C3_RejectedBeforeAnyNetworkCall ==
  (PreviewKeyRun /\ opts.previewName # Undefined)
  => /\ trace = <<>>
     /\ pc = "done" => exitCode = <<1>>

\* C3 amended: such a run is rejected with exit code 1 before any claim,
\* credential fetch, command, push or function run.  Given together with
\* --preview-create the run is refused by the option parser, before the
\* action starts and so before any network call; given alone it is refused
\* by the action after usageStateWarning, so the only call that can come
\* before the rejection is the usage-state lookup.
C3_RejectedBeforeClaim ==
  (PreviewKeyRun /\ opts.previewName # Undefined)
  => /\ OnlyUsageLookups
     /\ Cardinality(Events("usageState")) <= 1
     /\ creds = Undefined
     /\ pc \in {"parse", "safety", "configured", "usage", "mode", "done"}
     /\ pc = "done" => exitCode = <<1>>
     /\ OptionsConflict(opts) => trace = <<>> /\ log = <<>>
     /\ (pc = "done" /\ ~OptionsConflict(opts))
          => Len(log) = 1 /\ log[1].fn = "logError" /\ log[1].step = "mode"

\* C3 witness: --preview-name alone, rejected by the action after a usage lookup.
C3_Witness ==
  /\ PreviewKeyRun
  /\ opts.previewName # Undefined
  /\ opts.previewCreate = Undefined
  /\ Exited(1)
  /\ Happened("usageState")
  /\ Len(log) = 1 /\ log[1].step = "mode"

\* The dry-run branch of handlePreview has been entered.
InPreviewDryRun ==
  /\ PreviewKeyRun
  /\ Truthy(opts.dryRun)
  /\ previewName.t = "string"
  /\ pc \in {"previewBranch", "dryRunCommand", "dryRunPush", "done"}

Mentions(msg, url) == \E i \in DOMAIN msg : msg[i] = url[1]

\* No line of the narration shows the URL of a real deployment.
NoRealUrlNarrated ==
  \A i \in DOMAIN log : ~Mentions(log[i].msg, PreviewUrl) /\ ~Mentions(log[i].msg, ProdUrl)

\* What handlePreview itself leaves undone in a dry run: no claim, no
\* subprocess, no push, no function run, no deployment resolved; runCommand
\* is handed the placeholder URL and only narrates.
DryRunPreviewSkipsEffects ==
  /\ ~Happened("claim") /\ ~Happened("spawn") /\ ~Happened("push")
  /\ ~Happened("runFunction") /\ ~Happened("fetch")
  /\ creds = Undefined
  /\ NoRealUrlNarrated
  /\ pc = "dryRunCommand" => RunCommandCall.url = Str(PlaceholderUrl)
  /\ \A i \in DOMAIN log :
       log[i].step = "command" /\ log[i].fn = "logFinishedStep"
         => log[i].msg[1] = "Would have run "

\* C4 as stated: a dry-run preview flow makes zero network calls and spawns
\* no subprocess; the command step is narrated for the placeholder URL.
C4_DryRunPreviewNoNetworkCall ==
  InPreviewDryRun => trace = <<>> /\ DryRunPreviewSkipsEffects

\* C4 amended: in a dry-run preview flow no claim request is sent, --cmd is
\* never spawned, runPush and the --preview-run function are never invoked
\* and the command step is only narrated, runCommand being handed the
\* placeholder URL; the one network call the run can still make is the
\* usage-state lookup of the action, before the flow is entered.
C4_DryRunPreviewNoClaimSpawnPush ==
  InPreviewDryRun
  => /\ OnlyUsageLookups
     /\ Cardinality(Events("usageState")) <= 1
     /\ DryRunPreviewSkipsEffects
     /\ pc = "done" => exitCode = <<0>>

\* C4 witness: a finished dry run with --cmd and --preview-run, narrated.
C4_Witness ==
  /\ InPreviewDryRun
  /\ Exited(0)
  /\ opts.cmd # Undefined
  /\ opts.previewRun # Undefined
  /\ \E i \in DOMAIN log : log[i].step = "command" /\ log[i].msg[1] = "Would have run "

\* The call of runCommand is behind the run and the command did not fail.
CommandStepPassed ==
  \/ pc \in {"dryRunPush", "previewPush", "previewRun", "previewLogName",
             "prodPush", "prodLogName"}
  \/ Happened("push")
  \/ \E i \in DOMAIN log : log[i].step = "push"

SpawnFailed(i) == trace[i].kind = "spawn" /\ trace[i].status # [t |-> "number", v |-> 0]

\* C5: with --cmd and no dry run the command is spawned once, before the
\* push, with the resolved deployment URL under the resolved variable name;
\* if it exits with a non-zero status the run ends with exit code 1 and
\* neither runPush nor the post-deploy function runs.  In a dry run the
\* command is narrated and never spawned.
C5_CommandRunsBeforePush ==
  /\ \A i \in Events("spawn") :
       /\ ~Truthy(opts.dryRun)
       /\ trace[i].cmd = opts.cmd /\ opts.cmd # Undefined
       /\ trace[i].url = creds.url
       /\ \/ trace[i].envVar = opts.cmdUrlEnvVarName
          \/ /\ opts.cmdUrlEnvVarName = Undefined
             /\ trace[i].envVar.v \in SuggestedEnvVarNames
       /\ \A j \in Events("push") \cup Events("runFunction") : i < j
       /\ SpawnFailed(i)
            => Exited(1) /\ ~Happened("push") /\ ~Happened("runFunction")
  /\ Cardinality(Events("spawn")) <= 1
  /\ (CommandStepPassed /\ opts.cmd # Undefined /\ ~Truthy(opts.dryRun))
       => \E i \in Events("spawn") : ~SpawnFailed(i)
  /\ (CommandStepPassed /\ opts.cmd # Undefined /\ Truthy(opts.dryRun))
       => /\ ~Happened("spawn")
          /\ \E i \in DOMAIN log : log[i].step = "command" /\ log[i].msg[1] = "Would have run "

\* C5 witness: the command exited with status 1 and the run was stopped.
C5_Witness ==
  /\ Exited(1)
  /\ \E i \in Events("spawn") : trace[i].status = [t |-> "number", v |-> 1]
  /\ ~Happened("push")

\* The production flow has left its confirmation step and goes on.
ProceededToCommand ==
  \/ pc \in {"prodCommand", "prodPush", "prodLogName"}
  \/ pc = "done" /\ (Happened("push") \/ \E i \in DOMAIN trace : SpawnFailed(i))

\* The run reaches the push unless its command fails first.
PushesWhenDone ==
  (pc = "done" /\ ~\E i \in DOMAIN trace : SpawnFailed(i)) => Happened("push")

\* C6: when the configured deployment's name equals the resolved prod name
\* the production flow asks nothing, whether or not --yes was given, and
\* goes on to the command and the push.
C6_EqualNamesSkipPrompt ==
  ( /\ pc \notin {"confirm"}
    /\ HasConfiguredDeployment(deploymentNames)
    /\ deploymentNames.selected = deploymentNames.configured )
  => /\ ~Happened("prompt")
     /\ \A i \in DOMAIN log : log[i].step # "confirm"
     /\ ProceededToCommand
     /\ PushesWhenDone

\* C6 witness: equal names, no --yes, pushed without a question.
C6_Witness ==
  /\ HasConfiguredDeployment(deploymentNames)
  /\ deploymentNames.selected = deploymentNames.configured
  /\ opts.yes = Undefined
  /\ Exited(0)
  /\ Happened("push")
  /\ ~Happened("prompt")

\* C7: when the configured name is non-null and differs from the resolved
\* prod name: without --yes the operator is asked exactly once, before the
\* command and the push, and a refusal ends the run with exit code 1, no
\* command spawned and nothing pushed; with --yes nothing is asked and the
\* run goes on to the command and the push.
C7_DifferentNamesPromptOnce ==
  ( /\ pc \notin {"confirm"}
    /\ HasConfiguredDeployment(deploymentNames)
    /\ deploymentNames.selected # deploymentNames.configured )
  => IF opts.yes = Undefined
     THEN /\ Cardinality(Events("prompt")) = 1
          /\ \A i \in Events("prompt") :
               /\ \A j \in Events("spawn") \cup Events("push") : i < j
               /\ trace[i].answer => ProceededToCommand /\ PushesWhenDone
               /\ ~trace[i].answer
                    => Exited(1) /\ ~Happened("spawn") /\ ~Happened("push")
     ELSE /\ ~Happened("prompt")
          /\ ProceededToCommand
          /\ PushesWhenDone

\* C7 witness: the operator was asked and said no.
C7_Witness ==
  /\ HasConfiguredDeployment(deploymentNames)
  /\ deploymentNames.selected # deploymentNames.configured
  /\ opts.yes = Undefined
  /\ opts.cmd # Undefined
  /\ Exited(1)
  /\ \E i \in Events("prompt") : ~trace[i].answer

StepRank(kind) ==
  CASE kind = "usageState" -> 0
    [] kind \in {"claim", "fetch"} -> 1
    [] kind = "prompt" -> 2
    [] kind = "spawn" -> 3
    [] kind = "push" -> 4
    [] kind = "runFunction" -> 5

\* C8: the steps of a run happen in the order safety check, credential
\* resolution (fetch or claim), confirmation, local command, push,
\* post-deploy function, deployment-name output, each at most once; the
\* post-deploy function runs only in preview mode and only after the push,
\* and production mode ignores --preview-run.
C8_StepsInOrder ==
  /\ \A i, j \in DOMAIN trace :
       i < j => StepRank(trace[i].kind) < StepRank(trace[j].kind)
  /\ Cardinality(Events("push")) <= 1
  /\ trace # <<>> => pc \notin {"parse", "safety"}
  /\ ~(Happened("claim") /\ Happened("fetch"))
  /\ \A i \in Events("prompt") : Happened("fetch")
  /\ \A i \in Events("runFunction") :
       /\ PreviewKeyRun
       /\ Happened("claim")
       /\ \E j \in Events("push") : j < i
  /\ Happened("fetch") => ~Happened("runFunction")
  /\ \A i \in DOMAIN log :
       log[i].fn = "logOutput" => i = Len(log) /\ Happened("push") /\ Exited(0)

\* C8 witness: a preview run that went through every step, in order.
C8_Witness ==
  /\ Exited(0)
  /\ [i \in DOMAIN trace |-> trace[i].kind]
       = <<"usageState", "claim", "spawn", "push", "runFunction">>
  /\ log[Len(log)].fn = "logOutput"

\* C9: the preview identifier is the --preview-create value when given,
\* else the branch name of the CI environment; with neither the run ends
\* with exit code 1 and no claim request, dry-run narration, command or
\* push is made.  The claim request carries exactly that identifier.
C9_PreviewIdentifier ==
  /\ previewName # Undefined
       => previewName = (IF opts.previewCreate # Undefined THEN opts.previewCreate
                         ELSE env.gitBranch)
  /\ ( /\ PreviewKeyRun
       /\ ~LegacyPreviewNameGiven(opts)
       /\ pc \notin {"parse", "safety", "configured", "usage", "mode", "handlePreview"} )
       => previewName # Undefined
  /\ previewName = Null
       => /\ Exited(1)
          /\ ~Happened("claim") /\ ~Happened("spawn") /\ ~Happened("push")
          /\ log[Len(log)].step = "previewName"
          /\ \A i \in DOMAIN log : log[i].step \notin {"claim", "command", "push", "function"}
  /\ \A i \in Events("claim") :
       previewName.t = "string" /\ trace[i].identifier = previewName
  /\ \A i \in DOMAIN log :
       log[i].step = "claim"
         => log[i].msg = <<"Would have claimed preview deployment for ">> \o previewName.v

\* C9 witness: no --preview-create and no branch: the run was stopped.
C9_Witness ==
  /\ PreviewKeyRun
  /\ opts.previewCreate = Undefined
  /\ env.gitBranch = Null
  /\ previewName = Null
  /\ Exited(1)

\* What the real preview flow prints for options o, the command's variable
\* urlVar and the deployment URL url (lines 252-284).
RealPreviewNarration(o, urlVar, url) ==
  (IF o.cmd # Undefined
   THEN RunCommandNarration([cmd |-> o.cmd, dryRun |-> Undefined], urlVar)
   ELSE <<>>)
  \o PreviewPushNarration(url)
  \o PreviewRunNarration(o)

UrlVars == {Coalesce(opts.cmdUrlEnvVarName, Str(suggested)) : suggested \in SuggestedEnvVarNames}

\* C10 as stated: the dry run's narration is the real preview flow's
\* narration, line for line, with the placeholder URL in place of the real one.
C10_DryRunNarrationIdentical ==
  (InPreviewDryRun /\ Exited(0))
  => \E urlVar \in UrlVars : log = RealPreviewNarration(opts, urlVar, Str(PlaceholderUrl))

IsLine(entry) == entry.fn # "showSpinner"
LineSteps == LET lines == SelectSeq(log, IsLine) IN [i \in DOMAIN lines |-> lines[i].step]
EffectKinds ==
  LET NotUsage(e) == e.kind # "usageState"
      effects == SelectSeq(trace, NotUsage)
  IN [i \in DOMAIN effects |-> effects[i].kind]

OptionalStep(given, step) == IF given # Undefined THEN <<step>> ELSE <<>>

\* C10 amended: the dry run narrates the steps of the real preview flow in
\* the order the real flow performs them (claim, command when --cmd is
\* given, push, function run when --preview-run is given), one finished line
\* per step, each worded as what would have been done; the lines are not
\* those of the real flow, which prints nothing for the claim and names the
\* deployment URL where the dry run names the preview identifier, and the
\* placeholder URL appears in no line.
C10_DryRunNarratesSameSteps ==
  /\ (InPreviewDryRun /\ Exited(0))
       => /\ LineSteps = <<"claim">> \o OptionalStep(opts.cmd, "command") \o <<"push">>
                           \o OptionalStep(opts.previewRun, "function")
          /\ \A i \in DOMAIN log :
               /\ IsLine(log[i])
                    => log[i].msg[1] \in
                         {"Would have claimed preview deployment for ",
                          "Would have run ",
                          "Would have deployed Convex functions to preview deployment for ",
                          "Would have run function "}
               /\ ~Mentions(log[i].msg, PlaceholderUrl)
          /\ NoRealUrlNarrated
  /\ (PreviewKeyRun /\ pc = "previewLogName")
       => /\ EffectKinds = <<"claim">> \o OptionalStep(opts.cmd, "spawn") \o <<"push">>
                             \o OptionalStep(opts.previewRun, "runFunction")
          /\ LineSteps = OptionalStep(opts.cmd, "command") \o <<"push">>
                           \o OptionalStep(opts.previewRun, "function")
          /\ \E urlVar \in UrlVars : log = RealPreviewNarration(opts, urlVar, creds.url)

\* C10 witness: a finished dry run with --cmd and --preview-run whose four
\* lines are claim, command, push and function.
C10_Witness ==
  /\ InPreviewDryRun
  /\ Exited(0)
  /\ LineSteps = <<"claim", "command", "push", "function">>

(***************************************************************************)
(* lib/deployment.ts: the editor of .env.local and .gitignore              *)
(* (lines 447-580)                                                         *)
(*                                                                         *)
(* The content of a file is a string whose tokens are the line break "\n"  *)
(* and texts of whole lines: no two line texts are adjacent, so that a     *)
(* line of the file is one token or empty.                                 *)
(***************************************************************************)
\* Line 452.
ENV_VAR_FILE_PATH == <<".env.local">>

\* The lines joined by line breaks: the string whose split("\n") is lines.
RECURSIVE JoinLines(_)
JoinLines(lines) ==
  IF Len(lines) = 1 THEN lines[1]
  ELSE lines[1] \o <<"\n">> \o JoinLines(Tail(lines))

\* The list of accepted patterns without "*.local".
changesToGitIgnore_FourPatterns(existingFile) ==
  IF existingFile = Null THEN Str(ENV_VAR_FILE_PATH \o <<"\n">>)
  ELSE LET gitIgnoreLines == Split(existingFile.v, "\n")
           envVarFileIgnored ==
             \E i \in DOMAIN gitIgnoreLines :
               \/ gitIgnoreLines[i] = <<".env.local">>
               \/ gitIgnoreLines[i] = <<".env.*">>
               \/ gitIgnoreLines[i] = <<".env*">>
               \/ gitIgnoreLines[i] = <<".env*.local">>
       IN IF ~envVarFileIgnored
          THEN Str(existingFile.v \o <<"\n">> \o ENV_VAR_FILE_PATH \o <<"\n">>)
          ELSE Null

\* Lines 562-580.  existingFile is Null or Str(content); so is the result.
changesToGitIgnore(existingFile) ==
  IF existingFile = Null THEN Str(ENV_VAR_FILE_PATH \o <<"\n">>)
  ELSE LET gitIgnoreLines == Split(existingFile.v, "\n")
           envVarFileIgnored ==
             \E i \in DOMAIN gitIgnoreLines :
               \/ gitIgnoreLines[i] = <<".env.local">>
               \/ gitIgnoreLines[i] = <<".env.*">>
               \/ gitIgnoreLines[i] = <<".env*">>
               \/ gitIgnoreLines[i] = <<"*.local">>
               \/ gitIgnoreLines[i] = <<".env*.local">>
       IN IF ~envVarFileIgnored
          THEN Str(existingFile.v \o <<"\n">> \o ENV_VAR_FILE_PATH \o <<"\n">>)
          ELSE Null

\* Line 453.
CONVEX_DEPLOYMENT_VAR_NAME == "CONVEX_DEPLOYMENT"

\* The line assigns the variable: its text starts with the name and "=".
IsAssignment(line, name) == Len(line) >= 2 /\ line[1] = name /\ line[2] = "="

\* The value dotenv reads from an assignment line: the text after "=" up to
\* an inline comment.
AssignedValue(line) ==
  LET rest == SubSeq(line, 3, Len(line))
      i == FirstIndex(rest, " # ")
  IN IF i = 0 THEN rest ELSE SubSeq(rest, 1, i - 1)

\* dotenv.parse(content)[name]: the value of the last line assigning the
\* name, Undefined if no line assigns it.
dotenvParse(content, name) ==
  LET lines == Split(content, "\n")
      at == {i \in DOMAIN lines : IsAssignment(lines[i], name)}
  IN IF at = {} THEN Undefined
     ELSE Str(AssignedValue(lines[CHOOSE i \in at : \A j \in at : j <= i]))

\* getEnvVarRegex(name): the position of the first line the expression
\* matches, a line whose text starts with the name; 0 if there is none.
getEnvVarRegex(content, name) ==
  LET lines == Split(content, "\n")
      at == {i \in DOMAIN lines : lines[i] # <<>> /\ lines[i][1] = name}
  IN IF at = {} THEN 0 ELSE CHOOSE i \in at : \A j \in at : i <= j

\* content.replace(getEnvVarRegex(name), replacement): the text of the first
\* matching line is replaced, its line break stays.
ReplaceEnvVarLine(content, name, replacement) ==
  LET lines == Split(content, "\n")
      i == getEnvVarRegex(content, name)
  IN IF i = 0 THEN content ELSE JoinLines([lines EXCEPT ![i] = replacement])

\* changedEnvVarFile of lib/envvars.ts.  Null when the file already assigns
\* the value; else the content with the assignment replaced in place, or
\* appended below the comment line when the file does not assign the name.
changedEnvVarFile(existingFileContent, envVarName, envVarValue, commentAfterValue, commentOnPreviousLine) ==
  LET varAssignment == <<envVarName, "=">> \o envVarValue \o <<" # ">> \o commentAfterValue
      existing == dotenvParse(existingFileContent.v, envVarName)
      c == existingFileContent.v
  IN IF existingFileContent = Null
     THEN Str(commentOnPreviousLine \o <<"\n">> \o varAssignment \o <<"\n">>)
     ELSE IF existing = Str(envVarValue) THEN Null
     ELSE IF existing # Undefined
     THEN Str(ReplaceEnvVarLine(c, envVarName, varAssignment))
     ELSE Str(c \o (IF c # <<>> /\ c[Len(c)] = "\n" THEN <<"\n">> ELSE <<"\n", "\n">>)
                \o commentOnPreviousLine \o <<"\n">> \o varAssignment \o <<"\n">>)

\* The value written without the deployment type.
changesToEnvVarFile_NameOnly(existingFile, deploymentType, deployment) ==
  changedEnvVarFile(existingFile, CONVEX_DEPLOYMENT_VAR_NAME,
                    <<deployment.deploymentName>>,
                    <<"team: ", deployment.team, ", project: ", deployment.project>>,
                    <<"# Deployment used by npx convex dev">>)

\* Lines 540-559.  deployment is [team, project, deploymentName].
changesToEnvVarFile(existingFile, deploymentType, deployment) ==
  LET deploymentValue == <<deploymentType, ":", deployment.deploymentName>>
      commentOnPreviousLine == <<"# Deployment used by npx convex dev">>
      commentAfterValue == <<"team: ", deployment.team, ", project: ", deployment.project>>
  IN changedEnvVarFile(existingFile, CONVEX_DEPLOYMENT_VAR_NAME, deploymentValue,
                       commentAfterValue, commentOnPreviousLine)

\* .gitignore is written whether or not a line already ignores the file.
gitIgnoreEnvVarFile_AlwaysWrites(gitIgnore) ==
  LET gitIgnoreContents == IF gitIgnore # Null THEN gitIgnore ELSE Str(<<>>)
  IN [file |-> Str(gitIgnoreContents.v \o <<"\n">> \o ENV_VAR_FILE_PATH \o <<"\n">>),
      writes |-> <<".gitignore">>, ret |-> TRUE]

\* Lines 526-537.  gitIgnore is the file (Null when it does not exist); the
\* result is the file afterwards, the files written and the value returned.
gitIgnoreEnvVarFile(gitIgnore) ==
  LET gitIgnoreContents == IF gitIgnore # Null THEN gitIgnore ELSE Str(<<>>)
      changedGitIgnore == changesToGitIgnore(gitIgnoreContents)
  IN IF changedGitIgnore # Null
     THEN [file |-> changedGitIgnore, writes |-> <<".gitignore">>, ret |-> TRUE]
     ELSE [file |-> gitIgnore, writes |-> <<>>, ret |-> FALSE]

\* process.env is set only when the file is written.
writeDeploymentEnvVar_EnvOnlyOnChange(files, env0, deploymentType, deployment) ==
  LET changedFile == changesToEnvVarFile(files.envLocal, deploymentType, deployment)
      ignore == gitIgnoreEnvVarFile(files.gitIgnore)
  IN IF changedFile # Null
     THEN [fs |-> [envLocal |-> changedFile, gitIgnore |-> ignore.file],
           procEnv |-> Str(<<deploymentType, ":", deployment.deploymentName>>),
           writes |-> <<".env.local">> \o ignore.writes,
           gitIgnoreUpdate |-> TRUE, ret |-> ignore.ret]
     ELSE [fs |-> files, procEnv |-> env0, writes |-> <<>>,
           gitIgnoreUpdate |-> FALSE, ret |-> FALSE]

\* Lines 480-503.  files is ctx.fs and env0 process.env.CONVEX_DEPLOYMENT
\* before the call; the result holds both afterwards, the files written in
\* order, whether gitIgnoreEnvVarFile was called, and wroteToGitIgnore (ret).
writeDeploymentEnvVar(files, env0, deploymentType, deployment) ==
  LET existingFile == files.envLocal
      changedFile == changesToEnvVarFile(existingFile, deploymentType, deployment)
      newEnv == Str(<<deploymentType, ":", deployment.deploymentName>>)
      ignore == gitIgnoreEnvVarFile(files.gitIgnore)
  IN IF changedFile # Null
     THEN [fs |-> [envLocal |-> changedFile, gitIgnore |-> ignore.file],
           procEnv |-> newEnv,
           writes |-> <<".env.local">> \o ignore.writes,
           gitIgnoreUpdate |-> TRUE, ret |-> ignore.ret]
     ELSE [fs |-> files, procEnv |-> newEnv, writes |-> <<>>,
           gitIgnoreUpdate |-> FALSE, ret |-> FALSE]

\* true is returned without the file being written.
eraseDeploymentEnvVar_NoWrite(files) ==
  IF files.envLocal = Null THEN [fs |-> files, writes |-> <<>>, ret |-> FALSE]
  ELSE IF dotenvParse(files.envLocal.v, CONVEX_DEPLOYMENT_VAR_NAME) = Undefined
  THEN [fs |-> files, writes |-> <<>>, ret |-> FALSE]
  ELSE [fs |-> files, writes |-> <<>>, ret |-> TRUE]

\* Lines 506-524.
eraseDeploymentEnvVar(files) ==
  LET existingFile == files.envLocal IN
  IF existingFile = Null THEN [fs |-> files, writes |-> <<>>, ret |-> FALSE]
  ELSE LET existing == dotenvParse(existingFile.v, CONVEX_DEPLOYMENT_VAR_NAME)
           changedFile == Str(ReplaceEnvVarLine(existingFile.v, CONVEX_DEPLOYMENT_VAR_NAME, <<>>))
       IN IF existing = Undefined THEN [fs |-> files, writes |-> <<>>, ret |-> FALSE]
          ELSE [fs |-> [files EXCEPT !.envLocal = changedFile],
                writes |-> <<".env.local">>, ret |-> TRUE]


(***************************************************************************)
(* Calls of the exported functions                                         *)
(***************************************************************************)
\* The texts a line of .gitignore is tried with: the accepted patterns,
\* lines that only resemble them, another path, and the empty line.
GitIgnoreLineTexts ==
  {<<>>, <<".env.local">>, <<".env.*">>, <<".env*">>, <<"*.local">>, <<".env*.local">>,
   <<"node_modules">>, <<"# .env.local">>, <<".env.local.bak">>}

\* The contents of .gitignore tried: up to MaxGitIgnoreLines line breaks.
MaxGitIgnoreLines == 2
GitIgnoreContents ==
  {JoinLines(lines) :
     lines \in UNION {[1..n -> GitIgnoreLineTexts] : n \in 1..(MaxGitIgnoreLines + 1)}}

\* out holds the result once the function returned; again holds the result
\* of applying the function to its own result.
Pending(name, arg) == [name |-> name, arg |-> arg, out |-> <<>>, again |-> <<>>]
Returned(name) == call # <<>> /\ call.name = name /\ call.out # <<>>

GitIgnoreCalls ==
  {Pending("changesToGitIgnore", x) : x \in {Null} \cup {Str(c) : c \in GitIgnoreContents}}

\* No deploy invocation is running.
NoDeploy ==
  /\ pc = "idle"
  /\ opts = Undefined
  /\ env = Undefined
  /\ exitCode = <<>>
  /\ configuredDeployKey = Undefined
  /\ previewName = Undefined
  /\ creds = Undefined
  /\ deploymentNames = Undefined
  /\ trace = <<>>
  /\ log = <<>>

CallChangesToGitIgnore ==
  /\ call # <<>> /\ call.name = "changesToGitIgnore" /\ call.out = <<>>
  /\ call' = [call EXCEPT !.out = <<changesToGitIgnore(call.arg)>>]
  /\ UNCHANGED <<deployVars, fs, procEnv, last, nOps>>

\* The deployments written: [team, project, deploymentName].
Deployments ==
  {[team |-> "team1", project |-> "proj1", deploymentName |-> n] : n \in {"d1234", "e5678"}}

DeploymentTypes == {"dev", "prod"}

\* The lines assigning CONVEX_DEPLOYMENT, with and without the inline comment.
EnvAssignmentLines ==
  LET values == {<<ty, ":", n>> : ty \in DeploymentTypes, n \in {"d1234", "e5678"}}
  IN {<<CONVEX_DEPLOYMENT_VAR_NAME, "=">> \o v : v \in values}
     \cup {<<CONVEX_DEPLOYMENT_VAR_NAME, "=">> \o v
             \o <<" # ", "team: ", "team1", ", project: ", "proj1">> : v \in values}

\* The other lines of .env.local: empty, another variable, the comment line.
EnvOtherLines == {<<>>, <<"OTHER=1">>, <<"# Deployment used by npx convex dev">>}

\* The contents of .env.local tried: up to MaxEnvFileLines line breaks, at
\* most one line assigning CONVEX_DEPLOYMENT.
MaxEnvFileLines == 2
EnvFileContents ==
  {JoinLines(lines) :
     lines \in {l \in UNION {[1..n -> EnvAssignmentLines \cup EnvOtherLines] :
                               n \in 1..(MaxEnvFileLines + 1)} :
                  Cardinality({i \in DOMAIN l : l[i] \in EnvAssignmentLines}) <= 1}}

EnvVarFileCalls ==
  {Pending("changesToEnvVarFile", [existingFile |-> x, deploymentType |-> ty, deployment |-> d]) :
     x \in {Null} \cup {Str(c) : c \in EnvFileContents},
     ty \in DeploymentTypes, d \in Deployments}

CallChangesToEnvVarFile ==
  /\ call # <<>> /\ call.name = "changesToEnvVarFile" /\ call.out = <<>>
  /\ call' = [call EXCEPT !.out = <<changesToEnvVarFile(call.arg.existingFile,
                                      call.arg.deploymentType, call.arg.deployment)>>]
  /\ UNCHANGED <<deployVars, fs, procEnv, last, nOps>>

\* The function applied, with the same inputs, to the content it produced.
CallChangesToEnvVarFileAgain ==
  /\ Returned("changesToEnvVarFile") /\ call.again = <<>>
  /\ call.out[1] # Null
  /\ call' = [call EXCEPT !.again = <<changesToEnvVarFile(call.out[1],
                                        call.arg.deploymentType, call.arg.deployment)>>]
  /\ UNCHANGED <<deployVars, fs, procEnv, last, nOps>>


\* The admin keys and deployment strings tried: every string of up to
\* MaxKeyLen of these pieces.
KeyPieces == {"prod", "dev", ":", "|", "myapp-1234"}
MaxKeyLen == 4
AdminKeys == UNION {[1..n -> KeyPieces] : n \in 0..MaxKeyLen}

AdminKeyCalls ==
  {Pending(name, k) :
     name \in {"deploymentNameFromAdminKey", "deploymentNameFromAdminKeyOrCrash",
               "deploymentTypeFromAdminKey", "stripDeploymentTypePrefix"},
     k \in AdminKeys}

CallDeploymentNameFromAdminKey ==
  /\ call # <<>> /\ call.name = "deploymentNameFromAdminKey" /\ call.out = <<>>
  /\ call' = [call EXCEPT !.out = <<deploymentNameFromAdminKey(call.arg)>>]
  /\ UNCHANGED <<deployVars, fs, procEnv, last, nOps>>

\* Lines 582-595: the name, or a failure message and ctx.crash(1), after
\* which the call does not return.
CallDeploymentNameFromAdminKeyOrCrash ==
  /\ call # <<>> /\ call.name = "deploymentNameFromAdminKeyOrCrash" /\ call.out = <<>>
  /\ pc = "idle"
  /\ LET deploymentName == deploymentNameFromAdminKey(call.arg) IN
     IF deploymentName = Null
     THEN /\ log' = Append(log, Logged("logFailure", "deploymentNameFromAdminKeyOrCrash",
                                        <<"Please set ", "CONVEX_DEPLOY_KEY", " to a new key">>))
          /\ Crash(1)
          /\ UNCHANGED <<opts, env, configuredDeployKey, previewName, creds,
                         deploymentNames, trace, call>>
     ELSE /\ call' = [call EXCEPT !.out = <<deploymentName>>]
          /\ UNCHANGED deployVars
  /\ UNCHANGED <<fs, procEnv, last, nOps>>

CallDeploymentTypeFromAdminKey ==
  /\ call # <<>> /\ call.name = "deploymentTypeFromAdminKey" /\ call.out = <<>>
  /\ call' = [call EXCEPT !.out = <<deploymentTypeFromAdminKey(call.arg)>>]
  /\ UNCHANGED <<deployVars, fs, procEnv, last, nOps>>

CallStripDeploymentTypePrefix ==
  /\ call # <<>> /\ call.name = "stripDeploymentTypePrefix" /\ call.out = <<>>
  /\ call' = [call EXCEPT !.out = <<stripDeploymentTypePrefix(call.arg)>>]
  /\ UNCHANGED <<deployVars, fs, procEnv, last, nOps>>

\* The function applied to its own result.
CallStripDeploymentTypePrefixAgain ==
  /\ Returned("stripDeploymentTypePrefix") /\ call.again = <<>>
  /\ call' = [call EXCEPT !.again = <<stripDeploymentTypePrefix(call.out[1])>>]
  /\ UNCHANGED <<deployVars, fs, procEnv, last, nOps>>


\* The calls tried.
FunctionCalls == GitIgnoreCalls \cup EnvVarFileCalls \cup AdminKeyCalls

InitFunctions ==
  /\ NoDeploy
  /\ fs = [envLocal |-> Null, gitIgnore |-> Null]
  /\ procEnv = Undefined
  /\ last = <<>>
  /\ nOps = 0
  /\ call \in FunctionCalls

NextFunctions ==
  \/ CallChangesToGitIgnore
  \/ CallChangesToEnvVarFile
  \/ CallChangesToEnvVarFileAgain
  \/ CallDeploymentNameFromAdminKey
  \/ CallDeploymentNameFromAdminKeyOrCrash
  \/ CallDeploymentTypeFromAdminKey
  \/ CallStripDeploymentTypePrefix
  \/ CallStripDeploymentTypePrefixAgain

SpecFunctions == InitFunctions /\ [][NextFunctions]_vars

(***************************************************************************)
(* The editor at work on the two files                                     *)
(***************************************************************************)
\* The files the editor starts from (Null: the file does not exist).
EditorEnvFiles ==
  {Null, Str(<<>>), Str(<<"OTHER=1", "\n">>), Str(<<"OTHER=1">>),
   Str(<<"# Deployment used by npx convex dev", "\n",
         "CONVEX_DEPLOYMENT", "=", "dev", ":", "d1234",
         " # ", "team: ", "team1", ", project: ", "proj1", "\n">>),
   Str(<<"CONVEX_DEPLOYMENT", "=", "prod", ":", "e5678">>)}

EditorGitIgnoreFiles ==
  {Null, Str(<<>>), Str(<<"node_modules", "\n">>), Str(<<"node_modules">>),
   Str(<<".env*", "\n">>), Str(<<"node_modules", "\n", "*.local">>),
   Str(<<"# .env.local", "\n">>)}

\* The number of editor operations in a run.
MaxOps == 3

\* The operation before the last one: its name and what it returned.
Previous == IF last = <<>> THEN <<>> ELSE <<last.op, last.ret>>

CallWriteDeploymentEnvVar ==
  /\ nOps < MaxOps
  /\ \E deploymentType \in DeploymentTypes, deployment \in Deployments :
       LET r == writeDeploymentEnvVar(fs, procEnv, deploymentType, deployment) IN
       /\ fs' = r.fs
       /\ procEnv' = r.procEnv
       /\ last' = [op |-> "writeDeploymentEnvVar", before |-> fs, prev |-> Previous,
                   deploymentType |-> deploymentType, deployment |-> deployment,
                   writes |-> r.writes, gitIgnoreUpdate |-> r.gitIgnoreUpdate,
                   ret |-> r.ret]
  /\ nOps' = nOps + 1
  /\ UNCHANGED <<deployVars, call>>

CallEraseDeploymentEnvVar ==
  /\ nOps < MaxOps
  /\ LET r == eraseDeploymentEnvVar(fs) IN
       /\ fs' = r.fs
       /\ last' = [op |-> "eraseDeploymentEnvVar", before |-> fs, prev |-> Previous,
                   writes |-> r.writes, ret |-> r.ret]
  /\ nOps' = nOps + 1
  /\ UNCHANGED <<deployVars, procEnv, call>>

InitEditor ==
  /\ NoDeploy
  /\ fs \in [envLocal : EditorEnvFiles, gitIgnore : EditorGitIgnoreFiles]
  /\ procEnv \in {Undefined, Str(<<"dev", ":", "d1234">>)}
  /\ last = <<>>
  /\ nOps = 0
  /\ call = <<>>

NextEditor ==
  \/ CallWriteDeploymentEnvVar
  \/ CallEraseDeploymentEnvVar

SpecEditor == InitEditor /\ [][NextEditor]_vars


(***************************************************************************)
(* Properties of the editor and of the exported functions                  *)
(***************************************************************************)
\* The patterns the spec lists as ignoring .env.local.
AcceptedPatterns == {".env.local", ".env.*", ".env*", "*.local", ".env*.local"}

\* Some line of the content is one of the accepted patterns (a line of a file
\* content is one token or empty).
HasAcceptedLine(content) == \E i \in DOMAIN content : content[i] \in AcceptedPatterns

EndsWithLineBreak(content) == content # <<>> /\ content[Len(content)] = "\n"

\* The content with the path as one new line after its last line.
WithPathAsNewLine(content) ==
  content \o (IF content = <<>> \/ EndsWithLineBreak(content) THEN <<>> ELSE <<"\n">>)
          \o <<".env.local", "\n">>

\* C11 as the spec states it: changesToGitIgnore(null) is ".env.local\n"; a
\* content with an accepted pattern line gives null; any other content gives
\* the content with the path appended as one new line, so that
\* "node_modules\n" gives "node_modules\n.env.local\n".
C11_AppendsPathAsOneNewLine ==
  Returned("changesToGitIgnore") =>
    LET x == call.arg
        r == call.out[1]
    IN /\ x = Null => r = Str(<<".env.local", "\n">>)
       /\ (x # Null /\ HasAcceptedLine(x.v)) => r = Null
       /\ (x # Null /\ ~HasAcceptedLine(x.v)) => r = Str(WithPathAsNewLine(x.v))
       /\ x = Str(<<"node_modules", "\n">>) =>
            r = Str(<<"node_modules", "\n", ".env.local", "\n">>)

\* C11, amended: changesToGitIgnore(null) is ".env.local\n"; a content with an
\* accepted pattern line gives null; any other content gives the content, a
\* line break, the path and a line break, so that "node_modules\n" gives
\* "node_modules\n\n.env.local\n", with an empty line before the path.
C11_AppendsLineBreakAndPath ==
  Returned("changesToGitIgnore") =>
    LET x == call.arg
        r == call.out[1]
    IN /\ x = Null => r = Str(<<".env.local", "\n">>)
       /\ (x # Null /\ HasAcceptedLine(x.v)) => r = Null
       /\ (x # Null /\ ~HasAcceptedLine(x.v)) =>
            r = Str(x.v \o <<"\n", ".env.local", "\n">>)
       /\ x = Str(<<"node_modules", "\n">>) =>
            r = Str(<<"node_modules", "\n", "\n", ".env.local", "\n">>)

C11_Witness ==
  /\ Returned("changesToGitIgnore")
  /\ call.arg = Str(<<"node_modules", "\n">>)
  /\ call.out[1] # Null

\* The lines of the content, and those assigning CONVEX_DEPLOYMENT.
Lines(content) == Split(content, "\n")
AssignmentsIn(content) ==
  {i \in DOMAIN Lines(content) : IsAssignment(Lines(content)[i], "CONVEX_DEPLOYMENT")}
OtherLines(content) ==
  SelectSeq(Lines(content), LAMBDA l : ~IsAssignment(l, "CONVEX_DEPLOYMENT"))
IsPrefix(s, t) == Len(s) <= Len(t) /\ SubSeq(t, 1, Len(s)) = s

\* The file assigns CONVEX_DEPLOYMENT exactly the value.
Assigns(file, value) ==
  /\ file # Null
  /\ \E i \in AssignmentsIn(file.v) : AssignedValue(Lines(file.v)[i]) = value

ContentOf(file) == IF file = Null THEN <<>> ELSE file.v
Wrote(path) == \E i \in DOMAIN last.writes : last.writes[i] = path

\* C12: an operation of the editor that writes .gitignore leaves it with a
\* line from the accepted patterns and with the previous content as a
\* prefix; a .gitignore that already has such a line is not written, and
\* the update returns false; an operation that does not write .gitignore
\* leaves it as it was.
C12_GitIgnoreAppendOnly ==
  last # <<>> =>
    /\ Wrote(".gitignore") =>
         /\ HasAcceptedLine(ContentOf(fs.gitIgnore))
         /\ ~HasAcceptedLine(ContentOf(last.before.gitIgnore))
         /\ IsPrefix(ContentOf(last.before.gitIgnore), ContentOf(fs.gitIgnore))
         /\ Len(ContentOf(fs.gitIgnore)) > Len(ContentOf(last.before.gitIgnore))
         /\ last.ret = TRUE
    /\ HasAcceptedLine(ContentOf(last.before.gitIgnore)) =>
         /\ ~Wrote(".gitignore")
         /\ last.op = "writeDeploymentEnvVar" => last.ret = FALSE
    /\ ~Wrote(".gitignore") => fs.gitIgnore = last.before.gitIgnore

\* A second update: the first one wrote .gitignore, the second returns false.
C12_Witness ==
  /\ nOps >= 2
  /\ last.op = "writeDeploymentEnvVar"
  /\ last.gitIgnoreUpdate
  /\ last.ret = FALSE
  /\ last.before.gitIgnore \notin EditorGitIgnoreFiles

\* What the last writeDeploymentEnvVar computed from the files it found.
LastChange ==
  changesToEnvVarFile(last.before.envLocal, last.deploymentType, last.deployment)
HadEntry == AssignmentsIn(ContentOf(last.before.envLocal)) # {}

\* What C14 shares with its amendment: .env.local is written exactly when a
\* change is computed, and then holds the change; process.env has the value
\* "type:deploymentName" in either case.
WritesOnlyAChange ==
  /\ Wrote(".env.local") <=> LastChange # Null
  /\ fs.envLocal = (IF LastChange # Null THEN LastChange ELSE last.before.envLocal)
  /\ procEnv = Str(<<last.deploymentType, ":", last.deployment.deploymentName>>)

Has(s, sep) == \E i \in DOMAIN s : s[i] = sep
BeforeFirst(s, sep) ==
  IF ~Has(s, sep) THEN s
  ELSE SubSeq(s, 1, (CHOOSE i \in DOMAIN s : s[i] = sep /\ \A j \in 1..(i - 1) : s[j] # sep) - 1)
AfterLast(s, sep) ==
  IF ~Has(s, sep) THEN s
  ELSE SubSeq(s, (CHOOSE i \in DOMAIN s : s[i] = sep /\ \A j \in (i + 1)..Len(s) : s[j] # sep) + 1,
              Len(s))

\* The type of the key as the spec words it.
TypeOfKey(k) == IF Has(k, ":") THEN BeforeFirst(k, ":") ELSE <<"prod">>

\* The name the spec gives the key: null, or a string.
NameOfKey(k) ==
  IF ~Has(k, "|") \/ TypeOfKey(k) # <<"prod">> THEN Null
  ELSE Str(AfterLast(BeforeFirst(k, "|"), ":"))

\* C16: deploymentNameFromAdminKey returns null for a key without "|" and for
\* a key whose type is not prod, and for any other key the last
\* colon-delimited segment of the text before the first "|";
\* deploymentNameFromAdminKeyOrCrash returns that name, or exits with code 1
\* without returning when it is null.
C16_DeploymentNameFromAdminKey ==
  /\ Returned("deploymentNameFromAdminKey") =>
       /\ call.out[1] = NameOfKey(call.arg)
       /\ call.arg = <<"myapp-1234", "|", "prod">> => call.out[1] = Str(<<"myapp-1234">>)
  /\ (call # <<>> /\ call.name = "deploymentNameFromAdminKeyOrCrash") =>
       /\ call.out # <<>> =>
            (call.out[1] = NameOfKey(call.arg) /\ call.out[1] # Null /\ exitCode = <<>>)
       /\ exitCode # <<>> =>
            (exitCode = <<1>> /\ NameOfKey(call.arg) = Null /\ call.out = <<>>)
       /\ (pc = "idle" /\ call.out = <<>>) => exitCode = <<>>

\* A key with "|" whose type is not prod has no name: the crashing variant
\* exited with code 1.
C16_Witness ==
  /\ call # <<>> /\ call.name = "deploymentNameFromAdminKeyOrCrash"
  /\ call.arg = <<"dev", ":", "myapp-1234", "|">>
  /\ call.out = <<>>
  /\ exitCode = <<1>>

\* C17: deploymentTypeFromAdminKey returns "prod" for a key without ":" and
\* otherwise the text before the first ":".
C17_DeploymentTypeFromAdminKey ==
  Returned("deploymentTypeFromAdminKey") =>
    /\ ~Has(call.arg, ":") => call.out[1] = <<"prod">>
    /\ Has(call.arg, ":") => call.out[1] = BeforeFirst(call.arg, ":")

C17_Witness ==
  /\ Returned("deploymentTypeFromAdminKey")
  /\ call.arg = <<"dev", ":", "myapp-1234", "|">>
  /\ call.out[1] = <<"dev">>

\* C18: stripDeploymentTypePrefix returns the text after the last ":" of its
\* input, all of the input when it has no ":"; the result has no ":", and
\* the function applied to its result returns the result.
C18_StripDeploymentTypePrefix ==
  Returned("stripDeploymentTypePrefix") =>
    /\ call.out[1] = AfterLast(call.arg, ":")
    /\ ~Has(call.out[1], ":")
    /\ call.again # <<>> => call.again[1] = call.out[1]

C18_Witness ==
  /\ Returned("stripDeploymentTypePrefix")
  /\ call.arg = <<"prod", ":", ":", "myapp-1234">>
  /\ call.again = <<<<"myapp-1234">>>>

(***************************************************************************)
(* Properties of the mode selection and of the push                        *)
(***************************************************************************)
\* The run ended at one of the checks before the mode selection.
FailedInitialCheck ==
  \/ OptionsConflict(opts)
  \/ \E i \in DOMAIN log : log[i].step \in {"safety", "configured"}

\* The run passed the initial checks and the test of lines 169-172 was made.
ModeSelected ==
  /\ pc \notin {"parse", "safety", "configured", "usage", "mode"}
  /\ ~FailedInitialCheck

\* The run took the preview branch (lines 173-180): it was rejected there,
\* or handlePreview is running or has run.
EnteredPreview ==
  \/ \E i \in DOMAIN log : log[i].step = "mode"
  \/ pc \in {"handlePreview", "previewBranch", "dryRunCommand", "dryRunPush",
             "previewCommand", "previewPush", "previewRun", "previewLogName"}
  \/ previewName # Undefined
  \/ Happened("claim")

\* The run took the production branch (line 182).
EnteredProduction ==
  \/ pc \in {"handleProduction", "confirm", "prodCommand", "prodPush", "prodLogName"}
  \/ Happened("fetch")
  \/ Happened("prompt")

\* C19: a run that passed the initial checks is in the preview flow exactly
\* when its deploy key is present and of type preview, and in the production
\* flow exactly when it is not; no run is in neither or in both, none is in a
\* flow before the selection, and a run with a preview deploy key never
\* fetches production credentials nor pushes with them.
C19_ModeSelectionExclusive ==
  /\ ModeSelected =>
       /\ EnteredPreview <=> PreviewKeyRun
       /\ EnteredProduction <=> ~PreviewKeyRun
  /\ ~ModeSelected => (~EnteredPreview /\ ~EnteredProduction)
  /\ ~(EnteredPreview /\ EnteredProduction)
  /\ PreviewKeyRun =>
       /\ ~Happened("fetch")
       /\ \A i \in Events("push") :
            trace[i].url # Str(ProdUrl) /\ trace[i].adminKey # Str(ProdDeployKey)

\* A preview-key run went through the preview flow to its push and ended.
C19_Witness ==
  /\ ModeSelected
  /\ PreviewKeyRun
  /\ EnteredPreview
  /\ Happened("push")
  /\ Exited(0)

\* The request (claim or fetch) that resolved the deployment before step i.
ResolvedBefore(i, kind) ==
  {j \in Events(kind) : j < i}

\* C20: in the preview flow every push and every --preview-run function call
\* is made with the admin key and URL that the claim of the same run
\* returned, not with the configured preview deploy key, and the push has
\* dryRun false; in the production flow the push is made with the admin key
\* and URL that the credential fetch of the same run returned and with dryRun
\* equal to --dry-run; the URL given to the command is that same URL.
C20_PushTargetsResolvedDeployment ==
  /\ \A i \in Events("push") \cup Events("runFunction") :
       IF PreviewKeyRun
       THEN /\ Cardinality(ResolvedBefore(i, "claim")) = 1
            /\ \A j \in ResolvedBefore(i, "claim") :
                 /\ trace[i].adminKey = trace[j].result.adminKey
                 /\ trace[i].url = trace[j].result.instanceUrl
                 /\ trace[i].adminKey # trace[j].deployKey
                 /\ trace[j].deployKey = KeyRead
            /\ trace[i].kind = "push" => trace[i].dryRun = FALSE
       ELSE /\ trace[i].kind = "push"
            /\ Cardinality(ResolvedBefore(i, "fetch")) = 1
            /\ \A j \in ResolvedBefore(i, "fetch") :
                 /\ trace[i].adminKey = trace[j].result.adminKey
                 /\ trace[i].url = trace[j].result.url
            /\ trace[i].dryRun = Truthy(opts.dryRun)
  /\ \A i \in Events("spawn") :
       LET kind == IF PreviewKeyRun THEN "claim" ELSE "fetch" IN
       /\ ResolvedBefore(i, kind) # {}
       /\ \A j \in ResolvedBefore(i, kind) :
            trace[i].url = (IF PreviewKeyRun THEN trace[j].result.instanceUrl
                            ELSE trace[j].result.url)

\* A preview run whose command, push and function call all happened.
C20_Witness ==
  /\ PreviewKeyRun
  /\ Happened("spawn")
  /\ Happened("push")
  /\ Happened("runFunction")
  /\ Exited(0)

====
